---- MODULE Spec2Model ----
(***************************************************************************)
(* Model of the url-string-parser engine: mode classification, the nested  *)
(* substitution engine, the value-priority cascade, the query pipeline,    *)
(* the global query processor and the reconstruction step.                 *)
(*                                                                         *)
(* A JavaScript string is modelled as a sequence of one-character strings, *)
(* so that indexing, substring and regular-expression matching are         *)
(* computed as the code computes them.  The JavaScript value null is the   *)
(* one-element sequence Null, which is no string of characters.            *)
(***************************************************************************)
EXTENDS Naturals, Integers, Sequences, FiniteSets, TLC

VARIABLES
    pc,             \* position of the running operation
    input,          \* the argument(s) the operation was called with
    typeConverter,  \* the category resolver supplied by the caller
    encryptor,      \* the obfuscator supplied by the caller
    result,         \* the value the operation returned
    processed,      \* processNestedBrackets: the string being rewritten
                    \* (SpecTrace: one string per task of the Promise.all)
    traces,         \* the traces emitted so far (onInnerTrace calls)
    parseResult,    \* useUrlQueryParser: the parseResult state of the hook
    filteringMode   \* useUrlQueryParser: the filteringMode the hook was created with

vars == <<pc, input, typeConverter, encryptor, result, processed, traces,
          parseResult, filteringMode>>

engineVars == <<processed, traces>>
hookVars == <<parseResult, filteringMode>>

-----------------------------------------------------------------------------
(* JavaScript string primitives *)

Null == <<"<null>">>

\* const x = value; ...rest: the rest evaluated with x bound to the value
With(value, Rest(_)) == Rest(value)

Min(a, b) == IF a <= b THEN a ELSE b
Max(a, b) == IF a >= b THEN a ELSE b

\* String.prototype.substring(a, b): 0-based, end exclusive, clamped, swapped
substring(s, a, b) ==
    LET ca == Max(0, Min(a, Len(s)))
        cb == Max(0, Min(b, Len(s)))
    IN  SubSeq(s, Min(ca, cb) + 1, Max(ca, cb))

substringFrom(s, a) == substring(s, a, Len(s))

\* String.prototype.indexOf(c) for a one-character c: 0-based, -1 if absent
indexOf(s, c) ==
    IF \E i \in 1..Len(s) : s[i] = c
    THEN (CHOOSE i \in 1..Len(s) : s[i] = c /\ \A j \in 1..(i - 1) : s[j] # c) - 1
    ELSE -1

includes(s, c) == \E i \in 1..Len(s) : s[i] = c

\* characters the regular-expression dot does not match
LineTerminators == {"\n", "\r"}

\* characters String.prototype.trim() removes
WhiteSpace == {" ", "\t", "\n", "\r"}

\* truthiness of s.trim()
trimTruthy(s) == \E i \in 1..Len(s) : s[i] \notin WhiteSpace

\* truthiness of a string | null value
Truthy(v) == v # Null /\ v # <<>>

\* a || b on string | null values
OrElse(a, b) == IF Truthy(a) THEN a ELSE b

RECURSIVE Flatten(_)
\* the concatenation of a sequence of sequences
Flatten(t) == IF t = <<>> THEN <<>> ELSE t[1] \o Flatten(Tail(t))

RECURSIVE Join(_, _)
\* Array.prototype.join(sep)
Join(parts, sep) ==
    IF parts = <<>> THEN <<>>
    ELSE IF Len(parts) = 1 THEN parts[1]
    ELSE parts[1] \o sep \o Join(Tail(parts), sep)

-----------------------------------------------------------------------------
(* types/parser.types.ts, constants/typeValues.ts *)

ParameterType == {"A", "B", "LITERAL", "UNKNOWN", "GLOBAL"}
ProcessingMode == {"PARAMETER", "SUBSTITUTION"}

ATYPE_VALUES == {
    <<"A", "_", "T", "Y", "P", "E", "_", "1">>,
    <<"A", "_", "T", "Y", "P", "E", "_", "2">>,
    <<"A", "_", "T", "Y", "P", "E", "_", "3">>,
    <<"A", "_", "T", "Y", "P", "E", "_", "4">>,
    <<"A", "_", "T", "Y", "P", "E", "_", "5">>,
    <<"A", "_", "T", "Y", "P", "E", "_", "6">>,
    <<"A", "_", "T", "Y", "P", "E", "_", "1", "1">>,
    <<"A", "_", "T", "Y", "P", "E", "3">>,
    <<"P", "R", "O", "C">>,
    <<"N", "A", "M", "E">>,
    <<"A", "G", "E">>,
    <<"A", "E", "D">>,
    <<"T", "E", "X", "T">> }

BTYPE_VALUES == {
    <<"B", "_", "T", "Y", "P", "E", "_", "1">>,
    <<"B", "_", "T", "Y", "P", "E", "_", "2">>,
    <<"B", "_", "T", "Y", "P", "E", "_", "3">>,
    <<"B", "_", "T", "Y", "P", "E", "_", "4">>,
    <<"B", "_", "T", "Y", "P", "E", "_", "9">> }

NoFlags == [encrypted |-> FALSE, required |-> FALSE, literal |-> FALSE]

-----------------------------------------------------------------------------
(* utils/parser.utils.ts *)

detectParameterType(value) ==
    IF value \in ATYPE_VALUES THEN "A"
    ELSE IF value \in BTYPE_VALUES THEN "B"
    ELSE "UNKNOWN"

\* parseFlags with the cases of 'r' and 'v' exchanged
parseFlagsSwapped(flagString) ==
    [encrypted |-> includes(flagString, "e"),
     required  |-> includes(flagString, "v"),
     literal   |-> includes(flagString, "r")]

parseFlags(flagString) ==
    [encrypted |-> includes(flagString, "e"),
     required  |-> includes(flagString, "r"),
     literal   |-> includes(flagString, "v")]

\* a flag scan that does not know the required flag
IsFlagCharNoRequired(c) == c \in {"e", "v"}

IsFlagChar(c) == c \in {"e", "r", "v"}

\* the text the greedy prefix [erv]* consumes at the start of s
FlagPrefixLen(s) ==
    IF \E i \in 1..Len(s) : ~IsFlagChar(s[i])
    THEN (CHOOSE i \in 1..Len(s) :
            ~IsFlagChar(s[i]) /\ \A j \in 1..(i - 1) : IsFlagChar(s[j])) - 1
    ELSE Len(s)

\* input.match(/^([erv]*)\{(.+)\}$/): the dot matches no line terminator
BracketMatches(s) ==
    LET k == FlagPrefixLen(s)
    IN  /\ Len(s) >= k + 3
        /\ s[k + 1] = "{"
        /\ s[Len(s)] = "}"
        /\ \A i \in (k + 2)..(Len(s) - 1) : s[i] \notin LineTerminators

BracketFlagString(s) == SubSeq(s, 1, FlagPrefixLen(s))
BracketContent(s) == SubSeq(s, FlagPrefixLen(s) + 2, Len(s) - 1)

extractValueWithBrackets(in) ==
    IF ~BracketMatches(in)
    THEN [value |-> in, flags |-> NoFlags, extractedValue |-> Null]
    ELSE [value |-> in,
          flags |-> parseFlags(BracketFlagString(in)),
          extractedValue |-> BracketContent(in)]

parseNestedStructure(in) ==
    IF BracketMatches(in) /\
       LET flags == parseFlags(BracketFlagString(in))
       IN  flags.encrypted \/ flags.required \/ flags.literal
    THEN [value |-> in,
          globalFlags |-> parseFlags(BracketFlagString(in)),
          content |-> BracketContent(in)]
    ELSE [value |-> in, globalFlags |-> NoFlags, content |-> in]

determineParameterType(value, flags) ==
    IF flags.literal THEN "LITERAL" ELSE detectParameterType(value)

\* getFinalValue with the tiers tested for truthiness, as the inline cascade of
\* processNestedBrackets tests them
getFinalValueTruthy(originalValue, extractedValue, convertedValue, encryptedValue, flags, type, processingMode) ==
    IF Truthy(encryptedValue) THEN encryptedValue
    ELSE IF Truthy(convertedValue) THEN convertedValue
    ELSE IF flags.literal /\ extractedValue # Null THEN extractedValue
    ELSE IF ~flags.literal THEN <<>>
    ELSE originalValue

getFinalValue(originalValue, extractedValue, convertedValue, encryptedValue, flags, type, processingMode) ==
    IF encryptedValue # Null THEN encryptedValue
    ELSE IF convertedValue # Null THEN convertedValue
    ELSE IF flags.literal /\ extractedValue # Null THEN extractedValue
    ELSE IF processingMode = "SUBSTITUTION" /\ ~flags.literal /\ ~Truthy(convertedValue)
         THEN <<>>
    ELSE IF processingMode = "PARAMETER" /\ ~flags.literal /\ ~Truthy(convertedValue)
         THEN <<>>
    ELSE originalValue

\* a validity test that keeps every item
isValidValueAll(type, extractedValue, convertedValue, flags, processingMode) == TRUE

isValidValue(type, extractedValue, convertedValue, flags, processingMode) ==
    IF processingMode = "SUBSTITUTION" THEN TRUE
    ELSE IF flags.literal THEN TRUE
    ELSE IF type = "UNKNOWN" /\ ~Truthy(convertedValue) THEN FALSE
    ELSE IF type \in {"A", "B"} /\ ~Truthy(convertedValue) THEN FALSE
    ELSE TRUE

\* /^[erv]*\{[^{}]+\}$/.test(value)
ParameterShape(value) ==
    LET k == FlagPrefixLen(value)
    IN  /\ Len(value) >= k + 3
        /\ value[k + 1] = "{"
        /\ value[Len(value)] = "}"
        /\ \A i \in (k + 2)..(Len(value) - 1) : value[i] \notin {"{", "}"}

\* /\{.*\}/.test(content): a '{' and a later '}' with no line terminator between
HasBracePattern(content) ==
    \E i \in 1..Len(content) : \E j \in (i + 1)..Len(content) :
        /\ content[i] = "{"
        /\ content[j] = "}"
        /\ \A k \in (i + 1)..(j - 1) : content[k] \notin LineTerminators

detectProcessingMode(value) ==
    IF /\ ParameterShape(value)
       /\ BracketMatches(value)
       /\ ~HasBracePattern(BracketContent(value))
    THEN "PARAMETER"
    ELSE "SUBSTITUTION"

-----------------------------------------------------------------------------
(* The two collaborators.  A collaborator is absent ("undefined"), the mock  *)
(* of the test scripts ("mock"), one that resolves to the empty string       *)
(* ("empty"), or one whose promise rejects ("reject").                        *)
(* The resolver type admits every string as an answer: "group" is a resolver  *)
(* that answers with its argument in braces.                                  *)

CollaboratorModes == {"undefined", "mock", "empty", "reject"}

\* the obfuscators: the collaborator modes and `encrypted_${value}` of the examples
EncryptorModes == CollaboratorModes \cup {"prefix"}

Rejected == <<"<rejected>">>

mockResponses == {
    <<"P", "R", "O", "C">>,
    <<"N", "A", "M", "E">>,
    <<"H", "O", "N", "G", "1">>,
    <<"H", "O", "N", "G", "2">>,
    <<"K", "I", "N", "G", "1">>,
    <<"K", "I", "N", "G", "2">> }

\* await typeConverter(value, type): the resolved string, or Rejected
callTypeConverter(tc, value, type) ==
    IF tc = "reject" THEN Rejected
    ELSE IF tc = "empty" THEN <<>>
    ELSE IF tc = "group" THEN <<"{">> \o value \o <<"}">>
    ELSE IF value \in mockResponses
         THEN value \o <<"_", "V", "A", "L", "U", "E">>
         ELSE value \o <<"_", "C", "O", "N", "V", "E", "R", "T", "E", "D">>

\* await encryptor(value): the resolved string, or Rejected
callEncryptor(en, value) ==
    IF en = "reject" THEN Rejected
    ELSE IF en = "empty" THEN <<>>
    ELSE IF en = "prefix"
    THEN <<"e", "n", "c", "r", "y", "p", "t", "e", "d", "_">> \o value
    ELSE <<"E", "N", "C", "[">> \o value \o <<"]">>

\* a call without try/catch: the rejection is taken for the value
Uncaught(r) == r

\* try { x = await call } catch { }: x keeps its null on a rejection
Caught(r) == IF r = Rejected THEN Null ELSE r

-----------------------------------------------------------------------------
(* utils/parser.utils.ts: processSubstitution / processNestedBrackets *)

charAt(s, i) == s[i + 1]

\* one flag letter at most is taken for the group
FlagStartOne(s, j, flagStart) ==
    IF j >= 0 /\ IsFlagChar(charAt(s, j)) THEN j ELSE flagStart

RECURSIVE FlagStartLoop(_, _, _)
\* the backward loop over j that finds where the flag letters before '{' start
FlagStartLoop(s, j, flagStart) ==
    IF j < 0 THEN flagStart
    ELSE IF ~IsFlagChar(charAt(s, j)) THEN j + 1
    ELSE IF j = 0 THEN 0
    ELSE FlagStartLoop(s, j - 1, flagStart)

NoBracket == [found |-> FALSE]

RECURSIVE ScanBrackets(_, _, _, _)
\* one run of the for loop over i: the first '}' whose pop empties the stack
ScanBrackets(s, i, stack, flagStart) ==
    IF i >= Len(s) THEN NoBracket
    ELSE IF charAt(s, i) = "{"
    THEN LET fs == IF stack = <<>> THEN FlagStartLoop(s, i - 1, i) ELSE flagStart
         IN  ScanBrackets(s, i + 1, Append(stack, [index |-> i, flagStart |-> fs]), fs)
    ELSE IF charAt(s, i) = "}" /\ stack # <<>>
    THEN LET openBrace == stack[Len(stack)]
             rest == SubSeq(stack, 1, Len(stack) - 1)
         IN  IF rest = <<>>
             THEN [found |-> TRUE, fullStart |-> openBrace.flagStart,
                   index |-> openBrace.index, close |-> i]
             ELSE ScanBrackets(s, i + 1, rest, flagStart)
    ELSE ScanBrackets(s, i + 1, stack, flagStart)

FindBracket(s) == ScanBrackets(s, 0, <<>>, -1)

\* the body run for the bracket g found in s: conversion, encryption, final
\* value, the trace handed to onInnerTrace, and the spliced string
ProcessBracket(s, g, tc, en) ==
    With(substring(s, g.index + 1, g.close), LAMBDA extractedValue :
    With(parseFlags(substring(s, g.fullStart, g.index)), LAMBDA flags :
    With(determineParameterType(extractedValue, flags), LAMBDA type :
    With(IF ~flags.literal /\ tc # "undefined" /\ type \in {"A", "B"}
         THEN Caught(callTypeConverter(tc, extractedValue, type))
         ELSE Null, LAMBDA convertedValue :
    With(OrElse(convertedValue, IF flags.literal THEN extractedValue ELSE Null),
         LAMBDA valueToEncrypt :
    With(IF flags.encrypted /\ en # "undefined" /\ Truthy(valueToEncrypt)
         THEN Caught(callEncryptor(en, valueToEncrypt))
         ELSE Null, LAMBDA encryptedValue :
    With(IF Truthy(encryptedValue) THEN encryptedValue
         ELSE IF Truthy(convertedValue) THEN convertedValue
         ELSE IF flags.literal THEN extractedValue
         ELSE <<>>, LAMBDA finalValue :
    With(convertedValue # Null /\ convertedValue # extractedValue, LAMBDA hasConversion :
        [processed |->
             substring(s, 0, g.fullStart) \o finalValue \o substringFrom(s, g.close + 1),
         trace |->
             [type |-> type,
              target |-> extractedValue,
              convertedValue |-> convertedValue,
              encryptedValue |-> encryptedValue,
              result |-> finalValue,
              flags |-> flags,
              transformationSuccess |->
                  \/ extractedValue # finalValue
                  \/ hasConversion
                  \/ encryptedValue # Null
                  \/ flags.literal,
              failureReason |->
                  IF flags.encrypted /\ ~Truthy(encryptedValue) /\ en = "undefined"
                  THEN "NO_ENCRYPTOR"
                  ELSE IF ~hasConversion /\ type # "LITERAL" /\ ~flags.literal
                  THEN IF type = "UNKNOWN" THEN "UNKNOWN_TYPE"
                       ELSE IF tc = "undefined" THEN "NO_TYPECONVERTER"
                       ELSE "undefined"
                  ELSE "undefined"]]))))))))

RECURSIVE RunNestedBrackets(_, _, _, _)
\* the while (hasChanges) loop run to its end: the returned string and the
\* traces handed to onInnerTrace, in the order of the calls
RunNestedBrackets(text, tc, en, emitted) ==
    With(FindBracket(text), LAMBDA g :
        IF ~g.found THEN [value |-> text, traces |-> emitted]
        ELSE With(ProcessBracket(text, g, tc, en), LAMBDA r :
                 RunNestedBrackets(r.processed, tc, en, Append(emitted, r.trace))))

processSubstitution(content, tc, en) == RunNestedBrackets(content, tc, en, <<>>)

-----------------------------------------------------------------------------
(* parsers/queryParser.ts *)

RECURSIVE SplitLoop(_, _, _, _, _)
\* the for loop of smartSplitQuery from index i on
SplitLoop(content, i, current, depth, pairs) ==
    IF i >= Len(content)
    THEN IF trimTruthy(current) THEN Append(pairs, current) ELSE pairs
    ELSE LET char == charAt(content, i)
         IN  IF char = "{"
             THEN SplitLoop(content, i + 1, Append(current, char), depth + 1, pairs)
             ELSE IF char = "}"
             THEN SplitLoop(content, i + 1, Append(current, char), depth - 1, pairs)
             ELSE IF char = "&" /\ depth = 0
             THEN SplitLoop(content, i + 1, <<>>, depth,
                            IF trimTruthy(current) THEN Append(pairs, current) ELSE pairs)
             ELSE SplitLoop(content, i + 1, Append(current, char), depth, pairs)

smartSplitQuery(content) == SplitLoop(content, 0, <<>>, 0, <<>>)

\* a merge that hands the parent's encrypted flag down as well
MergedFlagsInherited(parentFlags, flags) ==
    [encrypted |-> parentFlags.encrypted \/ flags.encrypted,
     required |-> parentFlags.required \/ flags.required,
     literal |-> flags.literal]

MergedFlags(parentFlags, flags) ==
    [encrypted |-> flags.encrypted,
     required  |-> parentFlags.required \/ flags.required,
     literal   |-> flags.literal]

\* the entry parseRecursive pushes for a SUBSTITUTION-mode pair
SubstitutionEntry(key, val, parentFlags) ==
    With(extractValueWithBrackets(val), LAMBDA ex :
        [key |-> key,
         value |-> val,
         originalValue |-> val,
         flags |-> MergedFlags(parentFlags, ex.flags),
         type |-> "UNKNOWN",
         extractedValue |-> OrElse(ex.extractedValue, val),
         convertedValue |-> Null,
         encryptedValue |-> Null,
         finalValue |-> val,
         processingMode |-> "SUBSTITUTION"])

\* the entry parseRecursive pushes for a PARAMETER-mode pair
ParameterEntry(key, val, parentFlags) ==
    With(extractValueWithBrackets(val), LAMBDA ex :
    With(MergedFlags(parentFlags, ex.flags), LAMBDA mergedFlags :
    With(determineParameterType(OrElse(ex.extractedValue, val), mergedFlags), LAMBDA type :
        [key |-> key,
         value |-> val,
         originalValue |-> val,
         flags |-> mergedFlags,
         type |-> type,
         extractedValue |-> ex.extractedValue,
         convertedValue |-> Null,
         encryptedValue |-> Null,
         finalValue |-> getFinalValue(val, ex.extractedValue, Null, Null,
                                      mergedFlags, type, "PARAMETER"),
         processingMode |-> "PARAMETER"])))

RECURSIVE parsePairs(_, _)
\* pairs.forEach(pair => ...) of parseRecursive, the nested call included
parsePairs(pairs, parentFlags) ==
    IF pairs = <<>> THEN <<>>
    ELSE With(indexOf(pairs[1], "="), LAMBDA equalIndex :
         With(substring(pairs[1], 0, equalIndex), LAMBDA key :
         With(substringFrom(pairs[1], equalIndex + 1), LAMBDA val :
         With(extractValueWithBrackets(val), LAMBDA ex :
             (IF equalIndex = -1 \/ key = <<>> THEN <<>>
              ELSE IF detectProcessingMode(val) = "SUBSTITUTION"
              THEN <<SubstitutionEntry(key, val, parentFlags)>>
              ELSE <<ParameterEntry(key, val, parentFlags)>> \o
                   (IF Truthy(ex.extractedValue) /\ includes(ex.extractedValue, "=")
                       /\ ~ex.flags.literal
                    THEN parsePairs(smartSplitQuery(ex.extractedValue),
                                    MergedFlags(parentFlags, ex.flags))
                    ELSE <<>>))
             \o parsePairs(Tail(pairs), parentFlags)))))

parseRecursive(content, parentFlags) == parsePairs(smartSplitQuery(content), parentFlags)

parseQueryValue(value, globalFlags) == parseRecursive(value, globalFlags)

GLOBAL_KEY == <<"_", "_", "G", "L", "O", "B", "A", "L", "_", "_">>

IsGlobalEntry(q) == q.type = "GLOBAL"

parseQueryString(query) ==
    IF query = <<>> THEN <<>>
    ELSE With(parseNestedStructure(query), LAMBDA ns :
             IF \/ ns.globalFlags.encrypted
                \/ ns.globalFlags.required
                \/ ns.globalFlags.literal
             THEN << [key |-> GLOBAL_KEY,
                      value |-> query,
                      originalValue |-> query,
                      flags |-> ns.globalFlags,
                      type |-> "GLOBAL",
                      extractedValue |-> ns.content,
                      convertedValue |-> Null,
                      encryptedValue |-> Null,
                      finalValue |-> query,
                      processingMode |-> "SUBSTITUTION",
                      innerResults |-> parseQueryValue(ns.content, ns.globalFlags)] >>
             ELSE parseQueryValue(query, NoFlags))

-----------------------------------------------------------------------------
(* parsers/urlParser.ts *)

RECURSIVE SplitOn(_, _, _)
\* String.prototype.split(sep) for a one-character separator
SplitOn(s, sep, current) ==
    IF s = <<>> THEN <<current>>
    ELSE IF s[1] = sep THEN <<current>> \o SplitOn(Tail(s), sep, <<>>)
    ELSE SplitOn(Tail(s), sep, Append(current, s[1]))

NonEmpty(x) == x # <<>>

\* the object parseUrlSegments maps one segment to
ParseSegment(segment) ==
    With(extractValueWithBrackets(segment), LAMBDA ex :
    With(determineParameterType(OrElse(ex.extractedValue, segment), ex.flags), LAMBDA type :
        IF detectProcessingMode(segment) = "SUBSTITUTION"
        THEN [segment |-> segment,
              originalValue |-> segment,
              flags |-> ex.flags,
              type |-> "UNKNOWN",
              extractedValue |-> segment,
              convertedValue |-> Null,
              encryptedValue |-> Null,
              finalValue |-> segment,
              processingMode |-> "SUBSTITUTION"]
        ELSE [segment |-> segment,
              originalValue |-> segment,
              flags |-> ex.flags,
              type |-> type,
              extractedValue |-> ex.extractedValue,
              convertedValue |-> Null,
              encryptedValue |-> Null,
              finalValue |-> getFinalValue(segment, ex.extractedValue, Null, Null,
                                           ex.flags, type, "PARAMETER"),
              processingMode |-> "PARAMETER"]))

ParseSegments(segments) == [i \in 1..Len(segments) |-> ParseSegment(segments[i])]

parseUrlSegments(path) ==
    IF path = <<>> THEN <<>>
    ELSE ParseSegments(SelectSeq(SplitOn(path, "/", <<>>), NonEmpty))

-----------------------------------------------------------------------------
(* services/transformService.ts.  Every transform returns the transformed    *)
(* item together with the traces its onInnerTrace calls pushed.              *)

DigitChars == <<"0", "1", "2", "3", "4", "5", "6", "7", "8", "9">>

RECURSIVE NumToStr(_)
\* `${index}`
NumToStr(n) ==
    IF n < 10 THEN <<DigitChars[n + 1]>>
    ELSE NumToStr(n \div 10) \o <<DigitChars[(n % 10) + 1]>>

SegmentId(index) == <<"s", "e", "g", "m", "e", "n", "t", "-">> \o NumToStr(index)

GlobalInnerId(key) == GLOBAL_KEY \o <<".">> \o key

InnerMark == <<".", "i", "n", "n", "e", "r", ".">>

\* the onInnerTrace callback of parseAndTransformUrl: the record it pushes
InnerTrace(trace, location, identifier) ==
    [type |-> trace.type,
     target |-> trace.target,
     convertedValue |-> trace.convertedValue,
     encryptedValue |-> trace.encryptedValue,
     result |-> trace.result,
     flags |-> trace.flags,
     transformationSuccess |-> trace.transformationSuccess,
     failureReason |-> trace.failureReason,
     location |-> location,
     identifier |-> identifier \o InnerMark \o trace.target,
     processingMode |-> "SUBSTITUTION"]

InnerTraces(emitted, location, identifier) ==
    [i \in 1..Len(emitted) |-> InnerTrace(emitted[i], location, identifier)]

handleParameterMode(param, tc) ==
    IF /\ Truthy(param.extractedValue)
       /\ ~param.flags.literal
       /\ tc # "undefined"
       /\ param.type # "UNKNOWN"
       /\ param.type # "LITERAL"
    THEN Caught(callTypeConverter(tc, param.extractedValue, param.type))
    ELSE Null

\* handleEncryption obfuscating the extracted value, not the converted one
handleEncryptionRaw(param, convertedValue, en) ==
    IF ~param.flags.encrypted \/ en = "undefined" THEN Null
    ELSE IF Truthy(param.extractedValue)
    THEN Caught(callEncryptor(en, param.extractedValue))
    ELSE Null

handleEncryption(param, convertedValue, en) ==
    IF ~param.flags.encrypted \/ en = "undefined" THEN Null
    ELSE With(OrElse(convertedValue,
                     IF param.flags.literal THEN param.extractedValue ELSE Null),
              LAMBDA valueToEncrypt :
                  IF Truthy(valueToEncrypt) THEN Caught(callEncryptor(en, valueToEncrypt))
                  ELSE Null)

transformParameter(param, tc, en, location, identifier) ==
    With(processSubstitution(OrElse(param.extractedValue, param.originalValue), tc, en),
         LAMBDA sub :
    With(IF param.processingMode = "SUBSTITUTION" THEN sub.value
         ELSE handleParameterMode(param, tc), LAMBDA convertedValue :
    With(handleEncryption(param, convertedValue, en), LAMBDA encryptedValue :
        [item |-> [param EXCEPT
                     !.convertedValue = convertedValue,
                     !.encryptedValue = encryptedValue,
                     !.finalValue = getFinalValue(param.originalValue, param.extractedValue,
                                                  convertedValue, encryptedValue,
                                                  param.flags, param.type, "PARAMETER")],
         traces |-> IF param.processingMode = "SUBSTITUTION"
                    THEN InnerTraces(sub.traces, location, identifier)
                    ELSE <<>>])))

\* a substitution that stops after the inner groups: no outer obfuscation
handleSubstitutionInnerOnly(param, tc, en, location, identifier) ==
    With(processSubstitution(OrElse(param.extractedValue, param.originalValue), tc, en),
         LAMBDA sub :
        [item |-> [param EXCEPT !.convertedValue = sub.value,
                                !.encryptedValue = Null,
                                !.finalValue = sub.value],
         traces |-> InnerTraces(sub.traces, location, identifier)])

\* handleSegmentSubstitution and handleQuerySubstitution: the same body, called
\* with ('url', `segment-${index}`) and with ('query', query.key)
handleSubstitution(param, tc, en, location, identifier) ==
    With(processSubstitution(OrElse(param.extractedValue, param.originalValue), tc, en),
         LAMBDA sub :
    With(handleEncryption(param, sub.value, en), LAMBDA encryptedValue :
        [item |-> [param EXCEPT !.convertedValue = sub.value,
                                !.encryptedValue = encryptedValue,
                                !.finalValue = OrElse(encryptedValue, sub.value)],
         traces |-> InnerTraces(sub.traces, location, identifier)]))

handleSegmentSubstitution(segment, tc, en, segmentIndex) ==
    handleSubstitution(segment, tc, en, "url", SegmentId(segmentIndex))

handleQuerySubstitution(query, tc, en) ==
    handleSubstitution(query, tc, en, "query", query.key)

\* the items and the pushed traces of a sequence of transforms
Transformed(rs) ==
    [items |-> [i \in 1..Len(rs) |-> rs[i].item],
     traces |-> Flatten([i \in 1..Len(rs) |-> rs[i].traces])]

transformSegments(segments, tc, en) ==
    Transformed([i \in 1..Len(segments) |->
                   IF segments[i].processingMode = "SUBSTITUTION"
                   THEN handleSegmentSubstitution(segments[i], tc, en, i - 1)
                   ELSE transformParameter(segments[i], tc, en, "url", SegmentId(i - 1))])

HasFinalValue(q) == Truthy(q.finalValue)

KeyValue(q) == q.key \o <<"=">> \o q.finalValue

KeyValues(qs) == [i \in 1..Len(qs) |-> KeyValue(qs[i])]

processGlobalQuery(globalQuery, tc, en) ==
    With(Transformed([i \in 1..Len(globalQuery.innerResults) |->
                        transformParameter(globalQuery.innerResults[i], tc, en, "query",
                                           GlobalInnerId(globalQuery.innerResults[i].key))]),
         LAMBDA inner :
    With(Join(KeyValues(SelectSeq(inner.items, HasFinalValue)), <<"&">>),
         LAMBDA reconstructedContent :
        [item |-> [globalQuery EXCEPT !.convertedValue = reconstructedContent,
                                      !.encryptedValue = Null,
                                      !.finalValue = reconstructedContent,
                                      !.innerResults = inner.items],
         traces |-> inner.traces]))

transformQueries(queries, tc, en) ==
    Transformed([i \in 1..Len(queries) |->
                   IF queries[i].type = "GLOBAL"
                   THEN processGlobalQuery(queries[i], tc, en)
                   ELSE IF queries[i].processingMode = "SUBSTITUTION"
                   THEN handleQuerySubstitution(queries[i], tc, en)
                   ELSE transformParameter(queries[i], tc, en, "query", queries[i].key)])

-----------------------------------------------------------------------------
(* hooks/useUrlQueryParser.ts *)

FilteringMode == {"DEFAULT", "STRICT"}

\* useState<ParseResult>({...}): the state before the first updateParseResult
EmptyParseResult ==
    [baseUrl |-> <<>>, reconstructedPath |-> <<>>, url |-> <<>>, query |-> <<>>,
     transformationTraces |-> <<>>]

\* the hook is not in use
HookIdle == parseResult = EmptyParseResult /\ filteringMode = "DEFAULT"

\* processSubstitution is not running
EngineIdle == processed = <<>> /\ traces = <<>>

createTransformationTrace(item, location, identifier) ==
    LET hasConversion ==
            item.convertedValue # Null /\ item.convertedValue # item.extractedValue
        hasEncryption == item.encryptedValue # Null
        isChanged == item.extractedValue # item.finalValue
    IN  [type |-> item.type,
         target |-> OrElse(item.extractedValue, <<>>),
         convertedValue |-> item.convertedValue,
         encryptedValue |-> item.encryptedValue,
         result |-> item.finalValue,
         location |-> location,
         identifier |-> identifier,
         flags |-> item.flags,
         processingMode |-> item.processingMode,
         transformationSuccess |->
             isChanged \/ hasConversion \/ hasEncryption \/ item.flags.literal,
         failureReason |->
             IF ~hasConversion /\ item.type # "LITERAL" /\ ~item.flags.literal
             THEN IF item.type = "UNKNOWN" THEN "UNKNOWN_TYPE" ELSE "NO_TYPECONVERTER"
             ELSE "undefined"]

\* the trace collectTransformationTraces pushes for the global query itself
GlobalTrace(queryParam) ==
    [type |-> "GLOBAL",
     target |-> queryParam.convertedValue,
     convertedValue |-> queryParam.convertedValue,
     encryptedValue |-> queryParam.encryptedValue,
     result |-> queryParam.finalValue,
     location |-> "query",
     identifier |-> GLOBAL_KEY,
     flags |-> queryParam.flags,
     processingMode |-> "SUBSTITUTION",
     transformationSuccess |-> queryParam.encryptedValue # Null,
     failureReason |->
         IF queryParam.encryptedValue = Null /\ queryParam.flags.encrypted
         THEN "NO_ENCRYPTOR" ELSE "undefined"]

HasInnerResults(q) == "innerResults" \in DOMAIN q

\* the traces the parsedQueries.forEach body pushes for one query
QueryTraces(queryParam) ==
    (IF Truthy(queryParam.extractedValue) /\ queryParam.type # "GLOBAL"
     THEN <<createTransformationTrace(queryParam, "query", queryParam.key)>>
     ELSE <<>>)
    \o
    (IF HasInnerResults(queryParam)
     THEN Flatten([i \in 1..Len(queryParam.innerResults) |->
                     IF Truthy(queryParam.innerResults[i].extractedValue)
                     THEN <<createTransformationTrace(
                              queryParam.innerResults[i], "query",
                              queryParam.key \o <<".">> \o queryParam.innerResults[i].key)>>
                     ELSE <<>>])
          \o
          (IF queryParam.key = GLOBAL_KEY /\ Truthy(queryParam.convertedValue)
           THEN <<GlobalTrace(queryParam)>>
           ELSE <<>>)
     ELSE <<>>)

\* a collection that puts the traces of the items before the inner traces
collectOuterFirst(parsedSegments, parsedQueries, existingTraces) ==
    Flatten([i \in 1..Len(parsedSegments) |->
               IF Truthy(parsedSegments[i].extractedValue)
               THEN <<createTransformationTrace(parsedSegments[i], "url", SegmentId(i - 1))>>
               ELSE <<>>])
    \o Flatten([i \in 1..Len(parsedQueries) |-> QueryTraces(parsedQueries[i])])
    \o existingTraces

collectTransformationTraces(parsedSegments, parsedQueries, existingTraces) ==
    existingTraces
    \o Flatten([i \in 1..Len(parsedSegments) |->
                  IF Truthy(parsedSegments[i].extractedValue)
                  THEN <<createTransformationTrace(parsedSegments[i], "url", SegmentId(i - 1))>>
                  ELSE <<>>])
    \o Flatten([i \in 1..Len(parsedQueries) |-> QueryTraces(parsedQueries[i])])

\* [a-zA-Z]
Letters == { "a", "b", "c", "d", "e", "f", "g", "h", "i", "j", "k", "l", "m",
             "n", "o", "p", "q", "r", "s", "t", "u", "v", "w", "x", "y", "z",
             "A", "B", "C", "D", "E", "F", "G", "H", "I", "J", "K", "L", "M",
             "N", "O", "P", "Q", "R", "S", "T", "U", "V", "W", "X", "Y", "Z" }

\* [a-zA-Z0-9+.-]
ProtocolChars ==
    Letters \cup { "0", "1", "2", "3", "4", "5", "6", "7", "8", "9", "+", ".", "-" }

\* the length of the run [a-zA-Z][a-zA-Z0-9+.-]* at the start of s
ProtocolRun(s) ==
    IF s = <<>> \/ s[1] \notin Letters THEN 0
    ELSE IF \E i \in 2..Len(s) : s[i] \notin ProtocolChars
    THEN (CHOOSE i \in 2..Len(s) :
            s[i] \notin ProtocolChars /\ \A j \in 2..(i - 1) : s[j] \in ProtocolChars) - 1
    ELSE Len(s)

\* urlString.match(/^([a-zA-Z][a-zA-Z0-9+.-]*):\/\//)
ProtocolMatches(s) ==
    LET k == ProtocolRun(s)
    IN  k >= 1 /\ Len(s) >= k + 3 /\ SubSeq(s, k + 1, k + 3) = <<":", "/", "/">>

\* the components of a string without protocol
LocalComponents(urlString, queryIndex) ==
    [protocol |-> <<>>,
     host |-> <<>>,
     path |-> IF queryIndex = -1 THEN urlString ELSE substring(urlString, 0, queryIndex),
     query |-> IF queryIndex = -1 THEN <<>> ELSE substringFrom(urlString, queryIndex + 1)]

\* case 3 with the query left in the path
HostPathComponentsWhole(protocol, afterProtocol, pathStart) ==
    [protocol |-> protocol,
     host |-> substring(afterProtocol, 0, pathStart),
     path |-> substringFrom(afterProtocol, pathStart),
     query |-> <<>>]

\* case 3: host and path, the query cut off the path where there is one
HostPathComponents(protocol, afterProtocol, pathStart) ==
    With(substringFrom(afterProtocol, pathStart), LAMBDA afterHost :
    With(indexOf(afterHost, "?"), LAMBDA queryInPath :
        [protocol |-> protocol,
         host |-> substring(afterProtocol, 0, pathStart),
         path |-> IF queryInPath = -1 THEN afterHost
                  ELSE substring(afterHost, 0, queryInPath),
         query |-> IF queryInPath = -1 THEN <<>>
                   ELSE substringFrom(afterHost, queryInPath + 1)]))

\* the three cases of a string with protocol
RemoteComponents(protocol, afterProtocol, pathStart, queryStart) ==
    IF pathStart = -1 /\ queryStart = -1
    THEN [protocol |-> protocol, host |-> afterProtocol, path |-> <<>>, query |-> <<>>]
    ELSE IF pathStart = -1 \/ (queryStart # -1 /\ queryStart < pathStart)
    THEN [protocol |-> protocol,
          host |-> substring(afterProtocol, 0, queryStart),
          path |-> <<>>,
          query |-> substringFrom(afterProtocol, queryStart + 1)]
    ELSE HostPathComponents(protocol, afterProtocol, pathStart)

parseUrlComponents(urlString) ==
    IF ~ProtocolMatches(urlString)
    THEN LocalComponents(urlString, indexOf(urlString, "?"))
    ELSE With(substringFrom(urlString, ProtocolRun(urlString) + 3), LAMBDA afterProtocol :
             RemoteComponents(SubSeq(urlString, 1, ProtocolRun(urlString)), afterProtocol,
                              indexOf(afterProtocol, "/"), indexOf(afterProtocol, "?")))

BaseUrl(c) ==
    IF Truthy(c.protocol) /\ Truthy(c.host)
    THEN c.protocol \o <<":", "/", "/">> \o c.host
    ELSE <<>>

parseAndTransformUrl(urlString, tc, en) ==
    With(parseUrlComponents(urlString), LAMBDA c :
    With(transformSegments(parseUrlSegments(c.path), tc, en), LAMBDA segs :
    With(transformQueries(parseQueryString(c.query), tc, en), LAMBDA qs :
        [baseUrl |-> BaseUrl(c),
         parsedSegments |-> segs.items,
         parsedQueries |-> qs.items,
         transformationTraces |-> segs.traces \o qs.traces])))

FinalValues(items) == [i \in 1..Len(items) |-> items[i].finalValue]

\* the state updateParseResult(urlString, applyTransform) sets
updateParseResult(urlString, applyTransform, tc, en) ==
    IF applyTransform
    THEN With(parseAndTransformUrl(urlString, tc, en), LAMBDA r :
         With(Join(FinalValues(r.parsedSegments), <<"/">>), LAMBDA reconstructedPath :
             [baseUrl |-> r.baseUrl,
              reconstructedPath |-> IF Truthy(reconstructedPath)
                                    THEN <<"/">> \o reconstructedPath ELSE <<>>,
              url |-> r.parsedSegments,
              query |-> r.parsedQueries,
              transformationTraces |->
                  collectTransformationTraces(r.parsedSegments, r.parsedQueries,
                                              r.transformationTraces)]))
    ELSE With(parseUrlComponents(urlString), LAMBDA c :
             [baseUrl |-> BaseUrl(c),
              reconstructedPath |-> <<>>,
              url |-> parseUrlSegments(c.path),
              query |-> parseQueryString(c.query),
              transformationTraces |-> <<>>])

startsWith(s, prefix) ==
    Len(s) >= Len(prefix) /\ SubSeq(s, 1, Len(prefix)) = prefix

\* s.indexOf(sub, from) for a string sub, 0-based
indexOfString(s, sub, from) ==
    LET hits == { i \in from..(Len(s) - Len(sub)) : SubSeq(s, i + 1, i + Len(sub)) = sub }
    IN  IF hits = {} THEN -1 ELSE CHOOSE i \in hits : \A j \in hits : i <= j

includesString(s, sub) == indexOfString(s, sub, 0) # -1

IsInnerTraceOf(trace, prefix) == startsWith(trace.identifier, prefix \o InnerMark)

\* relatedTraces.some(...) || relatedTraces.some(...) of both STRICT filters
HasBlockingTrace(allTraces, prefix) ==
    \E i \in DOMAIN allTraces :
        /\ IsInnerTraceOf(allTraces[i], prefix)
        /\ \/ (~allTraces[i].flags.literal /\ allTraces[i].type # "UNKNOWN")
           \/ ~allTraces[i].transformationSuccess

\* the predicate of globalQuery.innerResults.filter(...)
KeepInnerInStrict(inner, allTraces) ==
    IF inner.flags.literal THEN TRUE
    ELSE IF ~includes(inner.originalValue, "{") \/ ~includes(inner.originalValue, "}")
    THEN TRUE
    ELSE IF inner.processingMode = "SUBSTITUTION"
    THEN ~HasBlockingTrace(allTraces, GlobalInnerId(inner.key))
    ELSE FALSE

filterGlobalQueryForStrict(globalQuery, allTraces) ==
    LET Kept(inner) == KeepInnerInStrict(inner, allTraces)
    IN  SelectSeq(globalQuery.innerResults, Kept)

shouldIncludeQueryInStrict(q, allTraces) ==
    IF q.flags.literal \/ ~includes(q.originalValue, "{") \/ ~includes(q.originalValue, "}")
    THEN TRUE
    ELSE IF q.processingMode = "SUBSTITUTION"
    THEN /\ ~HasBlockingTrace(allTraces, q.key)
         /\ ~(includes(q.finalValue, "{") /\ includes(q.finalValue, "}"))
         /\ ~includesString(q.finalValue, <<"@", "@", "@", "@">>)
         /\ ~(Len(q.finalValue) >= 2
              /\ SubSeq(q.finalValue, Len(q.finalValue) - 1, Len(q.finalValue)) = <<"@", "@">>)
         /\ trimTruthy(q.finalValue)
    ELSE FALSE

ENCRYPT_OPEN == <<"[", "E", "N", "C", "R", "Y", "P", "T", ":">>

\* `[ENCRYPT:${reconstructedContent}]`
EncryptMarker(content) == ENCRYPT_OPEN \o content \o <<"]">>

\* the query part of a Global entry whose kept inner results are inners
GlobalPart(q, activeFilteringMode, inners) ==
    With(Join(KeyValues(inners), <<"&">>), LAMBDA reconstructedContent :
        IF ~(IF activeFilteringMode = "STRICT" THEN Len(inners) > 0
             ELSE Truthy(reconstructedContent))
        THEN Null
        ELSE IF q.flags.encrypted THEN EncryptMarker(reconstructedContent)
        ELSE reconstructedContent)

\* processGlobalQuery of the hook: the query part of a Global entry, Null for none
globalQueryPart(q, activeFilteringMode, allTraces) ==
    IF ~HasInnerResults(q) THEN Null
    ELSE GlobalPart(q, activeFilteringMode,
                    IF activeFilteringMode = "STRICT"
                    THEN filterGlobalQueryForStrict(q, allTraces)
                    ELSE SelectSeq(q.innerResults, HasFinalValue))

processRegularQuery(q, activeFilteringMode, allTraces) ==
    IF activeFilteringMode = "STRICT"
    THEN IF shouldIncludeQueryInStrict(q, allTraces) THEN KeyValue(q) ELSE Null
    ELSE IF isValidValue(q.type, q.extractedValue, q.convertedValue, q.flags,
                         q.processingMode)
    THEN KeyValue(q) ELSE Null

\* queryPart of one query of getReconstructedUrl
QueryPart(q, activeFilteringMode, allTraces) ==
    IF q.type = "GLOBAL"
    THEN globalQueryPart(q, activeFilteringMode, allTraces)
    ELSE processRegularQuery(q, activeFilteringMode, allTraces)

\* queryParts of getReconstructedUrl
QueryParts(pr, activeFilteringMode) ==
    SelectSeq([i \in 1..Len(pr.query) |->
                 QueryPart(pr.query[i], activeFilteringMode, pr.transformationTraces)],
              Truthy)

getReconstructedUrl(pr, activeFilteringMode) ==
    With(Join(QueryParts(pr, activeFilteringMode), <<"&">>), LAMBDA queryString :
        pr.baseUrl \o pr.reconstructedPath \o
        (IF Truthy(queryString) THEN <<"?">> \o queryString ELSE <<>>))

\* the first match of /\[ENCRYPT:([^\]]+)\]/ in url at or after index from:
\* [at |-> index, content |-> group 1], at = -1 for none
RECURSIVE NextEncryptMatch(_, _)
NextEncryptMatch(url, from) ==
    With(indexOfString(url, ENCRYPT_OPEN, from), LAMBDA at :
    With(indexOf(substringFrom(url, at + Len(ENCRYPT_OPEN)), "]"), LAMBDA close :
        IF at = -1 THEN [at |-> -1, content |-> <<>>]
        ELSE IF close >= 1
        THEN [at |-> at,
              content |-> substring(url, at + Len(ENCRYPT_OPEN),
                                    at + Len(ENCRYPT_OPEN) + close)]
        ELSE NextEncryptMatch(url, at + 1)))

RECURSIVE EncryptMatches(_, _)
\* [...url.matchAll(encryptPattern)]: group 1 of every match, in order
EncryptMatches(url, from) ==
    With(NextEncryptMatch(url, from), LAMBDA m :
        IF m.at = -1 THEN <<>>
        ELSE <<m.content>> \o
             EncryptMatches(url, m.at + Len(EncryptMarker(m.content))))

\* result.replace(fullMatch, replacement): the first occurrence only
replaceFirst(s, pattern, replacement) ==
    With(indexOfString(s, pattern, 0), LAMBDA at :
        IF at = -1 THEN s
        ELSE substring(s, 0, at) \o replacement \o substringFrom(s, at + Len(pattern)))

RECURSIVE EncryptLoop(_, _, _)
\* for (const match of matches) { ... }
EncryptLoop(result0, matches, en) ==
    IF matches = <<>> THEN result0
    ELSE With(callEncryptor(en, matches[1]), LAMBDA encrypted :
             EncryptLoop(replaceFirst(result0, EncryptMarker(matches[1]),
                                      IF encrypted = Rejected THEN matches[1]
                                      ELSE encrypted),
                         Tail(matches), en))

encryptGlobalQueries(url, en) ==
    IF en = "undefined" THEN url
    ELSE EncryptLoop(url, EncryptMatches(url, 0), en)

-----------------------------------------------------------------------------
(* Bounded input strings: concatenations of at most n pieces of a piece set *)

StringsOver(P, n) == UNION { { Flatten(t) : t \in [1..k -> P] } : k \in 0..n }

NAME == <<"N", "A", "M", "E">>

\* a '{', then text without braces, then '}'
HasWellFormedGroup(s) ==
    \E i \in 1..Len(s) : \E j \in (i + 1)..Len(s) :
        /\ s[i] = "{"
        /\ s[j] = "}"
        /\ \A k \in (i + 1)..(j - 1) : s[k] \notin {"{", "}"}

-----------------------------------------------------------------------------
(* SpecEngine: processSubstitution(content, typeConverter, encryptor,       *)
(* onInnerTrace), one step per iteration of the while (hasChanges) loop.     *)

MaxEnginePieces == 4

EnginePieces == { <<"{">>, <<"}">>, <<"e">>, <<"v">>, <<"x">>, NAME }

\* the documented substitution example PROC=!@r{NAME}
SubstitutionExample ==
    <<"P", "R", "O", "C", "=", "!", "@", "r", "{">> \o NAME \o <<"}">>

EngineInit ==
    /\ input \in StringsOver(EnginePieces, MaxEnginePieces) \cup {SubstitutionExample}
    /\ typeConverter \in CollaboratorModes
    /\ encryptor \in CollaboratorModes
    /\ processed = input
    /\ traces = <<>>
    /\ result = Null
    /\ HookIdle
    /\ pc = "scan"

\* an iteration whose scan closes a bracket: resolve it, trace it, splice it
ResolveBracket ==
    /\ pc = "scan"
    /\ FindBracket(processed).found
    /\ LET r == ProcessBracket(processed, FindBracket(processed), typeConverter, encryptor)
       IN  /\ processed' = r.processed
           /\ traces' = Append(traces, r.trace)
    /\ UNCHANGED <<pc, input, typeConverter, encryptor, result, hookVars>>

\* an iteration whose scan changes nothing: the loop ends, processed is returned
ReturnProcessed ==
    /\ pc = "scan"
    /\ ~FindBracket(processed).found
    /\ pc' = "done"
    /\ result' = processed
    /\ UNCHANGED <<input, typeConverter, encryptor, engineVars, hookVars>>

EngineNext == ResolveBracket \/ ReturnProcessed

SpecEngine == EngineInit /\ [][EngineNext]_vars

\* C1: whenever one bracket group is nested inside another, the inner group is
\* resolved before the group that encloses it: no group is resolved (traced)
\* while a well-formed group is still waiting inside its content.
C1_InnerResolvedFirst ==
    \A i \in DOMAIN traces : ~HasWellFormedGroup(traces[i].target)

\* C2: when processSubstitution returns, its result contains no well-formed
\* bracket group ('{', brace-free text, '}').
C2_NoGroupRemains ==
    pc = "done" => ~HasWellFormedGroup(result)

\* the run of the documented example with the resolver NAME -> NAME_VALUE and
\* no obfuscator has returned
ExampleResolved ==
    /\ pc = "done"
    /\ input = SubstitutionExample
    /\ typeConverter = "mock"
    /\ encryptor = "undefined"

\* C11: resolving a SUBSTITUTION-mode string emits exactly one trace per
\* bracket group it resolves: a step splices a group out of the string exactly
\* when it appends one trace, whose target is that group's content, and no
\* step touches the earlier traces; PROC=!@r{NAME} resolves to
\* PROC=!@NAME_VALUE with one trace (target NAME, result NAME_VALUE, success).
C11_OneTracePerGroup ==
    /\ [][/\ (processed' # processed) <=> (Len(traces') = Len(traces) + 1)
          /\ traces' # traces =>
                /\ traces' = Append(traces, traces'[Len(traces')])
                /\ traces'[Len(traces')].target
                       = substring(processed, FindBracket(processed).index + 1,
                                   FindBracket(processed).close)]_vars
    /\ [](ExampleResolved =>
            /\ result = <<"P", "R", "O", "C", "=", "!", "@">> \o NAME \o <<"_", "V", "A", "L", "U", "E">>
            /\ Len(traces) = 1
            /\ traces[1].target = NAME
            /\ traces[1].result = NAME \o <<"_", "V", "A", "L", "U", "E">>
            /\ traces[1].transformationSuccess)

C11_Witness ==
    ExampleResolved /\ Len(traces) = 1

\* the resolution the trace records failed: the token is in neither lookup
\* list, or the resolver it needed is missing or rejected, or the obfuscator
\* it needed is missing or rejected
FailedAttempt(trace) ==
    \/ /\ ~trace.flags.literal
       /\ \/ trace.target \notin (ATYPE_VALUES \cup BTYPE_VALUES)
          \/ typeConverter \in {"undefined", "reject"}
    \/ /\ trace.flags.encrypted
       /\ encryptor \in {"undefined", "reject"}

\* C14: every resolution attempt that fails is recorded as a trace with
\* success = false and a failureReason set.
C14_FailuresTraced ==
    \A i \in DOMAIN traces :
        FailedAttempt(traces[i]) =>
            /\ ~traces[i].transformationSuccess
            /\ traces[i].failureReason # "undefined"

-----------------------------------------------------------------------------
(* SpecMode: detectProcessingMode(value) on every bounded value *)

MaxModeLen == 4

ModeChars == { <<"e">>, <<"v">>, <<"{">>, <<"}">>, <<"a">>, <<"\n">> }

ModeInit ==
    /\ input \in StringsOver(ModeChars, MaxModeLen)
    /\ typeConverter = "undefined"
    /\ encryptor = "undefined"
    /\ EngineIdle
    /\ HookIdle
    /\ result = Null
    /\ pc = "call"

DetectMode ==
    /\ pc = "call"
    /\ result' = detectProcessingMode(input)
    /\ pc' = "done"
    /\ UNCHANGED <<input, typeConverter, encryptor, engineVars, hookVars>>

ModeNext == DetectMode

SpecMode == ModeInit /\ [][ModeNext]_vars

\* zero or more letters of e/r/v, '{', one or more characters none of which is
\* a brace, '}', and nothing else
IsParameterForm(s) ==
    \E k \in 0..Len(s) :
        /\ \A i \in 1..k : s[i] \in {"e", "r", "v"}
        /\ Len(s) >= k + 3
        /\ s[k + 1] = "{"
        /\ s[Len(s)] = "}"
        /\ \A i \in (k + 2)..(Len(s) - 1) : s[i] \notin {"{", "}"}

\* C3: detectProcessingMode returns PARAMETER exactly when the whole value is
\* flags{content} with a non-empty brace-free content, and SUBSTITUTION for
\* every other string.
C3_ParameterIffForm ==
    pc = "done" =>
        /\ result \in {"PARAMETER", "SUBSTITUTION"}
        /\ (result = "PARAMETER") <=> IsParameterForm(input)

-----------------------------------------------------------------------------
(* SpecFinal: getFinalValue on every bounded combination of its arguments *)

MaxValueLen == 1

\* the strings c, cc, ... of at most n characters, and the empty string
Repeats(c, n) == { [i \in 1..k |-> c] : k \in 0..n }

FlagSets == [encrypted : BOOLEAN, required : BOOLEAN, literal : BOOLEAN]

FinalInit ==
    /\ input \in [originalValue  : Repeats("o", MaxValueLen),
                  extractedValue : Repeats("x", MaxValueLen) \cup {Null},
                  convertedValue : Repeats("c", MaxValueLen) \cup {Null},
                  encryptedValue : Repeats("n", MaxValueLen) \cup {Null},
                  flags          : FlagSets,
                  type           : ParameterType,
                  processingMode : ProcessingMode]
    /\ typeConverter = "undefined"
    /\ encryptor = "undefined"
    /\ EngineIdle
    /\ HookIdle
    /\ result = Null
    /\ pc = "call"

GetFinalValue ==
    /\ pc = "call"
    /\ result' = getFinalValue(input.originalValue, input.extractedValue,
                               input.convertedValue, input.encryptedValue,
                               input.flags, input.type, input.processingMode)
    /\ pc' = "done"
    /\ UNCHANGED <<input, typeConverter, encryptor, engineVars, hookVars>>

FinalNext == GetFinalValue

SpecFinal == FinalInit /\ [][FinalNext]_vars

-----------------------------------------------------------------------------
(* The hook in use: updateParseResult(urlString, applyTransform), then       *)
(* getReconstructedUrl(override), then encryptGlobalQueries(url)             *)

\* input of a hook run
HookInput(urlString, applyTransform) ==
    [urlString |-> urlString, applyTransform |-> applyTransform]

UpdateParseResult ==
    /\ pc = "idle"
    /\ parseResult' = updateParseResult(input.urlString, input.applyTransform,
                                        typeConverter, encryptor)
    /\ pc' = "parsed"
    /\ UNCHANGED <<input, typeConverter, encryptor, result, engineVars, filteringMode>>

GetReconstructedUrl ==
    /\ pc = "parsed"
    /\ \E overrideFilteringMode \in FilteringMode \cup {"undefined"} :
          result' = getReconstructedUrl(parseResult,
                        IF overrideFilteringMode = "undefined" THEN filteringMode
                        ELSE overrideFilteringMode)
    /\ pc' = "reconstructed"
    /\ UNCHANGED <<input, typeConverter, encryptor, engineVars, hookVars>>

EncryptGlobalQueries ==
    /\ pc = "reconstructed"
    /\ result' = encryptGlobalQueries(result, encryptor)
    /\ pc' = "encrypted"
    /\ UNCHANGED <<input, typeConverter, encryptor, engineVars, hookVars>>

-----------------------------------------------------------------------------
(* SpecItem: one segment or one query value, parsed and resolved             *)

MaxItemPieces == 4

ItemPieces == { <<"v">>, <<"e">>, <<"{">>, <<"}">>, <<"x">>, NAME, <<"\n">> }

ItemPrefixes == { <<"/">>, <<"?", "k", "=">> }

\* ve{x}{NAME}: a group the obfuscator is called for and a group the resolver
\* is called for
TwoCallsExample == <<"v", "e", "{", "x", "}", "{">> \o NAME \o <<"}">>

ItemInit ==
    /\ pc = "idle"
    /\ \E prefix \in ItemPrefixes,
          text \in StringsOver(ItemPieces, MaxItemPieces) \cup {TwoCallsExample} :
          input = HookInput(prefix \o text, TRUE)
    /\ typeConverter \in CollaboratorModes
    /\ encryptor \in CollaboratorModes
    /\ result = <<>>
    /\ EngineIdle
    /\ HookIdle

ItemNext == UpdateParseResult

SpecItem == ItemInit /\ [][ItemNext]_vars

\* the segments and the query entries of the parse result
ParsedItems == parseResult.url \o parseResult.query

\* flag, '{', X, '}'
WrittenAs(flag, value) ==
    Len(value) >= 3 /\ value[1] = flag /\ value[2] = "{" /\ value[Len(value)] = "}"

\* the X of flag{X}
Inside(value) == SubSeq(value, 3, Len(value) - 1)

BraceFree(s) == ~includes(s, "{") /\ ~includes(s, "}")

Resolved == pc = "parsed" /\ input.applyTransform

\* C5 as stated: every segment or query value written v{X} resolves to
\* finalValue = X, for every string X and whatever collaborators are supplied.
C5_LiteralAnyContent ==
    Resolved =>
        \A i \in DOMAIN ParsedItems :
            WrittenAs("v", ParsedItems[i].originalValue)
                => ParsedItems[i].finalValue = Inside(ParsedItems[i].originalValue)

\* C5 amended: every segment or query value written v{X}, X containing neither
\* '{' nor '}', resolves to finalValue = X, whether or not X is in a lookup list
\* and whatever resolver and obfuscator are supplied.
C5_LiteralBraceFree ==
    Resolved =>
        \A i \in DOMAIN ParsedItems :
            (/\ WrittenAs("v", ParsedItems[i].originalValue)
             /\ BraceFree(Inside(ParsedItems[i].originalValue)))
                => ParsedItems[i].finalValue = Inside(ParsedItems[i].originalValue)

\* a resolved v{NAME}: X is in a lookup list, both collaborators are supplied
C5_Witness ==
    /\ Resolved
    /\ typeConverter = "mock"
    /\ encryptor = "mock"
    /\ \E i \in DOMAIN ParsedItems :
          /\ ParsedItems[i].originalValue = <<"v", "{">> \o NAME \o <<"}">>
          /\ ParsedItems[i].finalValue = NAME

\* the collaborator resolves: it is supplied and its promise is not rejected
Succeeds(collaborator) == collaborator \in {"mock", "empty"}

\* obfuscate(resolve(X))
ObfuscatedResolved(X) ==
    callEncryptor(encryptor, callTypeConverter(typeConverter, X, detectParameterType(X)))

\* C6 as stated: with a resolver and an obfuscator that both succeed, every
\* segment or query value written e{X} resolves to finalValue =
\* obfuscate(resolve(X)), for every X.
C6_EncryptedAnyContent ==
    (Resolved /\ Succeeds(typeConverter) /\ Succeeds(encryptor)) =>
        \A i \in DOMAIN ParsedItems :
            WrittenAs("e", ParsedItems[i].originalValue)
                => ParsedItems[i].finalValue
                       = ObfuscatedResolved(Inside(ParsedItems[i].originalValue))

\* C6 amended: with an obfuscator that succeeds and a resolver that succeeds
\* with a non-empty string, every segment or query value written e{X}, X a
\* member of a lookup list, resolves to finalValue = obfuscate(resolve(X)).
C6_EncryptedLookupContent ==
    (Resolved /\ Succeeds(typeConverter) /\ Succeeds(encryptor)) =>
        \A i \in DOMAIN ParsedItems :
            (/\ WrittenAs("e", ParsedItems[i].originalValue)
             /\ Inside(ParsedItems[i].originalValue) \in ATYPE_VALUES \cup BTYPE_VALUES
             /\ Truthy(callTypeConverter(typeConverter,
                                         Inside(ParsedItems[i].originalValue),
                                         detectParameterType(
                                             Inside(ParsedItems[i].originalValue)))))
                => ParsedItems[i].finalValue
                       = ObfuscatedResolved(Inside(ParsedItems[i].originalValue))

\* a resolved e{NAME} with the mock collaborators: ENC[NAME_VALUE]
C6_Witness ==
    /\ Resolved
    /\ typeConverter = "mock"
    /\ encryptor = "mock"
    /\ \E i \in DOMAIN ParsedItems :
          /\ ParsedItems[i].originalValue = <<"e", "{">> \o NAME \o <<"}">>
          /\ ParsedItems[i].finalValue =
                 <<"E", "N", "C", "[">> \o NAME \o <<"_", "V", "A", "L", "U", "E", "]">>

\* the query entries of the parse of ?k=text with the collaborators of the state
AsQueryValue(text) ==
    updateParseResult(<<"?", "k", "=">> \o text, TRUE, typeConverter, encryptor).query

\* C26: a path segment and a query value that have the same text, resolved with
\* the same resolver and obfuscator, get the same finalValue.
C26_SegmentAsQueryValue ==
    Resolved =>
        \A i \in DOMAIN parseResult.url :
            \A j \in DOMAIN AsQueryValue(parseResult.url[i].originalValue) :
                AsQueryValue(parseResult.url[i].originalValue)[j].originalValue
                        = parseResult.url[i].originalValue
                    => AsQueryValue(parseResult.url[i].originalValue)[j].finalValue
                           = parseResult.url[i].finalValue

\* the resolver was called for the traced item or group, and rejected
ResolverRejected(trace) ==
    /\ typeConverter = "reject"
    /\ ~trace.flags.literal
    /\ trace.type \in {"A", "B"}

\* the obfuscator was called for the traced item or group, and rejected
ObfuscatorRejected(trace) ==
    /\ encryptor = "reject"
    /\ trace.flags.encrypted
    /\ Truthy(OrElse(trace.convertedValue,
                     IF trace.flags.literal THEN trace.target ELSE Null))

\* the tier below the obfuscated value: converted value, literal content, ""
BelowObfuscated(trace) ==
    IF trace.convertedValue # Null THEN trace.convertedValue
    ELSE IF trace.flags.literal THEN trace.target
    ELSE <<>>

C19_LiteralFlagLiteralCategory ==
    pc = "parsed" =>
        \A i \in DOMAIN ParsedItems :
            ParsedItems[i].flags.literal => ParsedItems[i].type = "LITERAL"

-----------------------------------------------------------------------------
(* SpecQuery: a query string parsed, resolved, reconstructed and obfuscated  *)

MaxQueryPieces == 5

QueryPieces == { <<"e", "{">>, <<"k", "=">>, <<"x">>, <<"]">>, <<"}">> }

\* e{name={A_TYPE_1}&value=test}, the documented Global case
GlobalExample ==
    <<"e", "{", "n", "a", "m", "e", "=", "{", "A", "_", "T", "Y", "P", "E", "_", "1", "}",
      "&", "v", "a", "l", "u", "e", "=", "t", "e", "s", "t", "}">>

\* k=[ENCRYPT:x]: a plain value, no braces and no flag, spelled like the marker
MarkerExample == <<"k", "=">> \o EncryptMarker(<<"x">>)

QueryInit ==
    /\ pc = "idle"
    /\ \E query \in StringsOver(QueryPieces, MaxQueryPieces)
                      \cup {GlobalExample, MarkerExample},
          applyTransform \in BOOLEAN :
          input = HookInput(<<"?">> \o query, applyTransform)
    /\ typeConverter \in {"undefined", "mock"}
    /\ encryptor \in EncryptorModes
    /\ result = <<>>
    /\ EngineIdle
    /\ HookIdle

QueryNext == UpdateParseResult \/ GetReconstructedUrl \/ EncryptGlobalQueries

SpecQuery == QueryInit /\ [][QueryNext]_vars

\* the parse result is a single Global Query Entry with the encrypted flag
EncryptedGlobal ==
    /\ Len(parseResult.query) = 1
    /\ IsGlobalEntry(parseResult.query[1])
    /\ parseResult.query[1].flags.encrypted

\* the inner items with non-empty final value as key=value, joined by '&'
Reassembled ==
    Join(KeyValues(SelectSeq(parseResult.query[1].innerResults, HasFinalValue)), <<"&">>)

\* C7: after resolution a Global Query Entry with the encrypted flag, an
\* obfuscator available and a non-empty reassembled string has finalValue =
\* the obfuscator's output on the reassembled string.
C7_GlobalFinalObfuscated ==
    (/\ pc = "parsed"
     /\ input.applyTransform
     /\ EncryptedGlobal
     /\ encryptor \in {"mock", "empty", "prefix"}
     /\ Truthy(Reassembled))
        => parseResult.query[1].finalValue = callEncryptor(encryptor, Reassembled)

\* the parse result is a single Global Query Entry
SingleGlobal == Len(parseResult.query) = 1 /\ IsGlobalEntry(parseResult.query[1])

\* the whole reassembled inner content the hook reconstructs under a mode
GlobalContent(mode) ==
    Join(KeyValues(IF mode = "STRICT"
                   THEN filterGlobalQueryForStrict(parseResult.query[1],
                                                   parseResult.transformationTraces)
                   ELSE SelectSeq(parseResult.query[1].innerResults, HasFinalValue)),
         <<"&">>)

\* the output is the content, or the obfuscator's output on all of the content
WholeOrObfuscated(content) ==
    \/ result = (IF content = <<>> THEN <<>> ELSE <<"?">> \o content)
    \/ /\ content # <<>>
       /\ encryptor # "undefined"
       /\ callEncryptor(encryptor, content) # Rejected
       /\ result = <<"?">> \o callEncryptor(encryptor, content)

\* C8: for a Global query the Global part of the output is the whole
\* reassembled inner content or the obfuscator's output on all of it, never an
\* obfuscated fragment joined to leftover text.
C8_GlobalWholeOrObfuscated ==
    (pc = "encrypted" /\ input.applyTransform /\ SingleGlobal)
        => \E mode \in FilteringMode : WholeOrObfuscated(GlobalContent(mode))

\* what the entry q contributes: key=finalValue, or the finalValue of a Global
ContributionOf(q) == IF IsGlobalEntry(q) THEN q.finalValue ELSE KeyValue(q)

\* baseUrl + path + '?' + the contributions of the entries at the indices kept
AssembledFrom(kept) ==
    LET Chosen(i) == i \in kept
        parts == [i \in 1..Len(parseResult.query) |-> ContributionOf(parseResult.query[i])]
        picked == SelectSeq([i \in 1..Len(parts) |-> <<i, parts[i]>>],
                            LAMBDA pair : Chosen(pair[1]))
        queryString == Join([i \in 1..Len(picked) |-> picked[i][2]], <<"&">>)
    IN  parseResult.baseUrl \o parseResult.reconstructedPath \o
        (IF picked = <<>> THEN <<>> ELSE <<"?">> \o queryString)

\* C21: the reconstructed output string equals baseUrl + path + '?' + the
\* query parts joined by '&', in which an ordinary entry contributes
\* key=finalValue and a Global entry contributes exactly its finalValue, with
\* no key= prefix and no other added text.
C21_OutputAssembled ==
    (pc = "reconstructed" /\ input.applyTransform) =>
        \E kept \in SUBSET DOMAIN parseResult.query : result = AssembledFrom(kept)

-----------------------------------------------------------------------------
(* SpecParse: parseQueryString(query) on bounded query strings               *)

MaxParseLen == 5

ParseChars == {"e", "v", "{", "}", "k", "=", "\n"}

\* e{k=e}&k={e}: two top-level pairs, the first value and the second value a group
TwoGroupsExample == <<"e", "{", "k", "=", "e", "}", "&", "k", "=", "{", "e", "}">>

MaxPairLen == 5

\* k=f{c}, bare or inside a Global wrapper r{...} or e{...}: a query value
\* whose content c may hold key=value pairs
NestedPairQueries ==
    { wrapper[1] \o <<"k", "=">> \o f \o <<"{">> \o c \o <<"}">> \o wrapper[2] :
        wrapper \in { <<<<>>, <<>>>>, <<<<"r", "{">>, <<"}">>>>, <<<<"e", "{">>, <<"}">>>> },
        f \in { <<>>, <<"e">>, <<"r">>, <<"v">>, <<"e", "r">> },
        c \in StringsOver({ <<"a">>, <<"=">>, <<"&">> }, MaxPairLen) }

ParseInit ==
    /\ pc = "idle"
    /\ input \in StringsOver({<<c>> : c \in ParseChars}, MaxParseLen)
                  \cup {TwoGroupsExample} \cup NestedPairQueries
    /\ typeConverter = "undefined"
    /\ encryptor = "undefined"
    /\ result = <<>>
    /\ EngineIdle
    /\ HookIdle

ParseQueryString ==
    /\ pc = "idle"
    /\ result' = parseQueryString(input)
    /\ pc' = "done"
    /\ UNCHANGED <<input, typeConverter, encryptor, engineVars, hookVars>>

ParseNext == ParseQueryString

SpecParse == ParseInit /\ [][ParseNext]_vars

RECURSIVE MatchingClose(_, _, _)
\* the position of the '}' that closes the '{' at position open: the first
\* position after it where the nesting depth is back to zero; 0 for none
MatchingClose(s, i, depth) ==
    IF i > Len(s) THEN 0
    ELSE IF s[i] = "{" THEN MatchingClose(s, i + 1, depth + 1)
    ELSE IF s[i] = "}"
    THEN IF depth = 1 THEN i ELSE MatchingClose(s, i + 1, depth - 1)
    ELSE MatchingClose(s, i + 1, depth)

\* flag letters, at least one of them, then a '{' whose matching '}' is the
\* last character
WholeBracketPattern(s) ==
    /\ FlagPrefixLen(s) >= 1
    /\ FlagPrefixLen(s) < Len(s)
    /\ s[FlagPrefixLen(s) + 1] = "{"
    /\ MatchingClose(s, FlagPrefixLen(s) + 2, 1) = Len(s)

\* C9: parseQueryString returns a single Global Query Entry exactly when the
\* whole query is flag letters (at least one flag set), then a '{' whose
\* matching '}' is the last character; otherwise it returns ordinary entries.
C9_GlobalIffWholePattern ==
    pc = "done" =>
        IF WholeBracketPattern(input)
        THEN Len(result) = 1 /\ IsGlobalEntry(result[1])
        ELSE \A i \in DOMAIN result : ~IsGlobalEntry(result[i])

\* the entries of the parsed query, those of a Global wrapper taken out of it
ParsedEntries ==
    IF Len(result) = 1 /\ IsGlobalEntry(result[1]) THEN result[1].innerResults
    ELSE result

\* the key=value pairs of a brace-free content: its '&'-separated pieces that
\* have a '=' after a non-empty key
PairsOf(content) ==
    SelectSeq(SplitOn(content, "&", <<>>), LAMBDA piece : indexOf(piece, "=") >= 1)

\* the parent entry k=f{c} is in PARAMETER mode and its content holds a pair
HoldsPairs ==
    /\ pc = "done"
    /\ input \in NestedPairQueries
    /\ Len(ParsedEntries) >= 1
    /\ ParsedEntries[1].processingMode = "PARAMETER"
    /\ PairsOf(ParsedEntries[1].extractedValue) # <<>>

\* the entries after the parent are the pairs of its content, in order, each
\* with required = parent's required or its own and encrypted = its own
ChildrenOfParent ==
    LET parent == ParsedEntries[1]
        pairs == PairsOf(parent.extractedValue)
    IN  /\ Len(ParsedEntries) = 1 + Len(pairs)
        /\ \A i \in 1..Len(pairs) :
              LET child == ParsedEntries[i + 1]
                  own == extractValueWithBrackets(child.value).flags
              IN  /\ child.key \o <<"=">> \o child.value = pairs[i]
                  /\ child.flags.required = (parent.flags.required \/ own.required)
                  /\ child.flags.encrypted = own.encrypted

\* C22 as stated: whenever a PARAMETER-mode query value's extracted content
\* contains a key=value pair, the content is re-split and re-parsed into
\* further entries, each with required = parent's required OR its own and
\* encrypted = its own only.
C22_ContentReparsed ==
    HoldsPairs => ChildrenOfParent

\* C22, amended: the content is re-split and re-parsed unless the value
\* carries the literal flag; a literal value stays a single entry.
C22_ContentReparsedUnlessLiteral ==
    HoldsPairs =>
        IF ParsedEntries[1].flags.literal THEN Len(ParsedEntries) = 1
        ELSE ChildrenOfParent

\* r{k=e{a=&a=}} has been parsed: the parent has required from the wrapper
\* and its own encrypted flag, the two children have required only
C22_Witness ==
    /\ HoldsPairs
    /\ Len(ParsedEntries) = 3
    /\ ParsedEntries[1].flags.encrypted
    /\ ParsedEntries[1].flags.required
    /\ ParsedEntries[2].flags.required
    /\ ~ParsedEntries[2].flags.encrypted

-----------------------------------------------------------------------------
(* SpecSplit: smartSplitQuery(content) on bounded strings                    *)

MaxSplitLen == 5

SplitChars == {"{", "}", "&", "a", " "}

\* name={A&B}&value=test
SplitExample ==
    <<"n", "a", "m", "e", "=", "{", "A", "&", "B", "}", "&",
      "v", "a", "l", "u", "e", "=", "t", "e", "s", "t">>

SplitInit ==
    /\ pc = "idle"
    /\ input \in StringsOver({<<c>> : c \in SplitChars}, MaxSplitLen) \cup {SplitExample}
    /\ typeConverter = "undefined"
    /\ encryptor = "undefined"
    /\ result = <<>>
    /\ EngineIdle
    /\ HookIdle

SmartSplitQuery ==
    /\ pc = "idle"
    /\ result' = smartSplitQuery(input)
    /\ pc' = "done"
    /\ UNCHANGED <<input, typeConverter, encryptor, engineVars, hookVars>>

SplitNext == SmartSplitQuery

SpecSplit == SplitInit /\ [][SplitNext]_vars

\* position p lies inside a bracket group: after a '{' and before the '}' that
\* closes it
InsideGroup(s, p) ==
    \E i \in 1..(p - 1) : s[i] = "{" /\ MatchingClose(s, i + 1, 1) > p

RECURSIVE SplitOutsideGroups(_, _, _)
\* the non-blank pieces of s from position i on, cut at every '&' that lies
\* outside every bracket group
SplitOutsideGroups(s, i, current) ==
    IF i > Len(s)
    THEN IF trimTruthy(current) THEN <<current>> ELSE <<>>
    ELSE IF s[i] = "&" /\ ~InsideGroup(s, i)
    THEN (IF trimTruthy(current) THEN <<current>> ELSE <<>>)
         \o SplitOutsideGroups(s, i + 1, <<>>)
    ELSE SplitOutsideGroups(s, i + 1, Append(current, s[i]))

\* C10: smartSplitQuery treats an '&' as a separator if and only if it lies
\* outside every bracket group: the pairs are the pieces between such '&'.
C10_SeparatorIffOutsideGroups ==
    pc = "done" => result = SplitOutsideGroups(input, 1, <<>>)

-----------------------------------------------------------------------------
(* SpecNested: one query value e{S} whose content S holds bracket groups,    *)
(* parsed and resolved                                                       *)

MaxNestedPieces == 4

NestedPieces == { <<"{">>, <<"}">>, <<"r">>, <<"x">>, <<"=">>, NAME }

NestedPrefix == <<"?", "k", "=">>

NestedInit ==
    /\ pc = "idle"
    /\ \E S \in StringsOver(NestedPieces, MaxNestedPieces) \cup {SubstitutionExample} :
          input = HookInput(NestedPrefix \o <<"e", "{">> \o S \o <<"}">>, TRUE)
    /\ typeConverter \in {"undefined", "mock"}
    /\ encryptor \in {"mock", "prefix"}
    /\ result = <<>>
    /\ EngineIdle
    /\ HookIdle

NestedNext == UpdateParseResult

SpecNested == NestedInit /\ [][NestedNext]_vars

\* the S of the query value e{S} that was parsed
NestedContent == Inside(substringFrom(input.urlString, Len(NestedPrefix)))

NestedSubstituted ==
    processSubstitution(NestedContent, typeConverter, encryptor).value

-----------------------------------------------------------------------------
(* SpecUrl: a URL of path segments and query entries, parsed, resolved and   *)
(* reconstructed                                                             *)

MaxUrlDepth == 2

MaxUrlItems == 2

UrlFlags == { <<>>, <<"v">>, <<"e">> }

RECURSIVE UrlContents(_)
\* a token, or a flagged bracket group around content one level shallower
UrlContents(depth) ==
    IF depth = 0 THEN { <<"x">>, NAME }
    ELSE UrlContents(depth - 1) \cup
         { f \o <<"{">> \o c \o <<"}">> : f \in UrlFlags, c \in UrlContents(depth - 1) }

\* the text of one segment or of one query value
UrlItems == { pre \o c : pre \in { <<>>, <<"x">> }, c \in UrlContents(MaxUrlDepth) }

\* the key of the i-th query entry: k1, k2, ...
UrlKey(i) == <<"k">> \o NumToStr(i)

\* /seg/seg?k1=value&k2=value
UrlOf(segments, values) ==
    Flatten([i \in 1..Len(segments) |-> <<"/">> \o segments[i]]) \o
    (IF values = <<>> THEN <<>>
     ELSE <<"?">> \o Join([i \in 1..Len(values) |-> UrlKey(i) \o <<"=">> \o values[i]],
                          <<"&">>))

UrlInit ==
    /\ pc = "idle"
    /\ \E n \in 0..MaxUrlItems : \E items \in [1..n -> UrlItems] : \E segs \in 0..n :
          input = HookInput(UrlOf(SubSeq(items, 1, segs), SubSeq(items, segs + 1, n)), TRUE)
    /\ typeConverter \in {"undefined", "mock"}
    /\ encryptor \in {"undefined", "mock"}
    /\ result = <<>>
    /\ EngineIdle
    /\ HookIdle

UrlNext == UpdateParseResult \/ GetReconstructedUrl

SpecUrl == UrlInit /\ [][UrlNext]_vars

\* a PARAMETER-mode entry whose token is in neither lookup list, without the
\* literal flag
UnlistedParameter(q) ==
    /\ q.processingMode = "PARAMETER"
    /\ q.extractedValue \notin (ATYPE_VALUES \cup BTYPE_VALUES)
    /\ ~q.flags.literal

\* the parse result without its i-th query entry
WithoutQuery(pr, i) ==
    [pr EXCEPT !.query = SubSeq(pr.query, 1, i - 1) \o SubSeq(pr.query, i + 1, Len(pr.query))]

StrictOutput == getReconstructedUrl(parseResult, "STRICT")

\* the traces of the bracket groups of the entry q
GroupTraces(q) ==
    SelectSeq(parseResult.transformationTraces, LAMBDA trace : IsInnerTraceOf(trace, q.key))

\* every bracket group of q is of category Literal and was resolved with
\* success, and neither the resolver nor the obfuscator produced a value
OnlyLiteralGroups(q) ==
    /\ q.processingMode = "SUBSTITUTION"
    /\ q.encryptedValue = Null
    /\ \A i \in DOMAIN GroupTraces(q) :
          /\ GroupTraces(q)[i].type = "LITERAL"
          /\ GroupTraces(q)[i].transformationSuccess
          /\ GroupTraces(q)[i].encryptedValue = Null

\* C16: in STRICT mode a query entry appears in the reconstructed output only
\* if its original text has no bracket syntax, or it carries the literal
\* flag, or it is a SUBSTITUTION-mode entry all of whose traces are
\* literal-category and successful; no entry whose bracket groups needed
\* resolver or obfuscator work is kept.
C16_StrictKeepsLiteralOnly ==
    (pc = "reconstructed" /\ result = StrictOutput) =>
        \A i \in DOMAIN parseResult.query :
            LET q == parseResult.query[i]
            IN  includesString(result, q.key \o <<"=">>) =>
                    \/ BraceFree(q.originalValue)
                    \/ q.flags.literal
                    \/ OnlyLiteralGroups(q)

\* a PARAMETER-mode segment with no literal flag and no converted value
Exclusionary(segment) ==
    /\ segment.processingMode = "PARAMETER"
    /\ ~segment.flags.literal
    /\ ~Truthy(segment.convertedValue)

\* C17: in DEFAULT mode a path segment is part of the reconstructed path if
\* and only if its final value is non-exclusionary: the path is '/' and the
\* final values of the non-exclusionary segments joined by '/', so that a
\* segment that is left out leaves no empty path component behind.
C17_PathOfKeptSegments ==
    pc # "idle" =>
        LET kept == SelectSeq(parseResult.url, LAMBDA segment : ~Exclusionary(segment))
            path == Join(FinalValues(kept), <<"/">>)
        IN  /\ parseResult.reconstructedPath
                  = IF path = <<>> THEN <<>> ELSE <<"/">> \o path
            /\ pc = "reconstructed" /\ result = getReconstructedUrl(parseResult, "DEFAULT")
                  => startsWith(result, IF path = <<>> THEN <<>> ELSE <<"/">> \o path)

\* parsing and resolving url with the same collaborators and reconstructing
\* the output in STRICT mode
StrictAgain(url) ==
    getReconstructedUrl(updateParseResult(url, TRUE, typeConverter, encryptor), "STRICT")

\* C18: for every input, parsing and resolving it in STRICT mode,
\* reconstructing the output string, and then parsing and resolving that
\* output in STRICT mode again with the same collaborators yields the same
\* output string.
C18_StrictIdempotent ==
    (pc = "reconstructed" /\ result = StrictOutput) => StrictAgain(result) = result

-----------------------------------------------------------------------------
(* SpecTrace: updateParseResult(url, true) step by step. transformSegments   *)
(* and transformQueries run their items under Promise.all: each item is a    *)
(* task whose awaits let the other tasks run, so the inner traces reach the  *)
(* shared transformationTraces array in the order the collaborator calls     *)
(* complete. processed holds the working string of every task of the running *)
(* Promise.all, traces the array onInnerTrace pushes to. The URLs of UrlInit  *)
(* hold no Global entry.                                                     *)

\* parseUrlSegments(path) and parseQueryString(query) of the input
TraceSegments == parseUrlSegments(parseUrlComponents(input.urlString).path)

TraceQueries == parseQueryString(parseUrlComponents(input.urlString).query)

\* the tasks in the reverse order of the items
TaskStringsReversed(items) ==
    [i \in 1..Len(items) |->
        IF items[Len(items) + 1 - i].processingMode = "SUBSTITUTION"
        THEN OrElse(items[Len(items) + 1 - i].extractedValue,
                    items[Len(items) + 1 - i].originalValue)
        ELSE <<>>]

\* the strings the tasks hand to processSubstitution; a PARAMETER-mode item
\* has no bracket loop to run
TaskStrings(items) ==
    [i \in 1..Len(items) |->
        IF items[i].processingMode = "SUBSTITUTION"
        THEN OrElse(items[i].extractedValue, items[i].originalValue)
        ELSE <<>>]

TasksDone == \A i \in DOMAIN processed : ~FindBracket(processed[i]).found

\* parseAndTransformUrl up to the call of transformSegments
StartSegments ==
    /\ pc = "idle"
    /\ input.applyTransform
    /\ processed' = TaskStrings(TraceSegments)
    /\ traces' = <<>>
    /\ pc' = "segments"
    /\ UNCHANGED <<input, typeConverter, encryptor, result, hookVars>>

\* one bracket of task i resolved: its collaborator calls have completed,
\* onInnerTrace pushes the trace, the string is spliced
TaskStep(i, location, identifier) ==
    /\ FindBracket(processed[i]).found
    /\ LET r == ProcessBracket(processed[i], FindBracket(processed[i]),
                               typeConverter, encryptor)
       IN  /\ processed' = [processed EXCEPT ![i] = r.processed]
           /\ traces' = Append(traces, InnerTrace(r.trace, location, identifier))
    /\ UNCHANGED <<pc, input, typeConverter, encryptor, result, hookVars>>

SegmentStep ==
    /\ pc = "segments"
    /\ \E i \in DOMAIN processed : TaskStep(i, "url", SegmentId(i - 1))

\* Promise.all of transformSegments resolves; transformQueries is called
StartQueries ==
    /\ pc = "segments"
    /\ TasksDone
    /\ processed' = TaskStrings(TraceQueries)
    /\ pc' = "queries"
    /\ UNCHANGED <<input, typeConverter, encryptor, result, traces, hookVars>>

QueryStep ==
    /\ pc = "queries"
    /\ \E i \in DOMAIN processed : TaskStep(i, "query", TraceQueries[i].key)

\* Promise.all of transformQueries resolves; updateParseResult collects the
\* traces of the items behind the inner traces and sets the state
CollectTraces ==
    /\ pc = "queries"
    /\ TasksDone
    /\ parseResult' =
          With(updateParseResult(input.urlString, TRUE, typeConverter, encryptor),
               LAMBDA r : [r EXCEPT !.transformationTraces =
                                        collectTransformationTraces(r.url, r.query, traces)])
    /\ pc' = "parsed"
    /\ UNCHANGED <<input, typeConverter, encryptor, result, engineVars, filteringMode>>

TraceNext == StartSegments \/ SegmentStep \/ StartQueries \/ QueryStep \/ CollectTraces

SpecTrace == UrlInit /\ [][TraceNext]_vars

\* the trace is the outer trace of an item, not the trace of a bracket group
IsOuterTrace(trace) == ~includesString(trace.identifier, InnerMark)

\* C20: in the trace list of one parse, every inner-substitution trace of a
\* Segment or Query Entry comes before that entry's own outer trace, for
\* every order in which the collaborator calls complete.
C20_InnerBeforeOuter ==
    pc = "parsed" =>
        \A i, j \in DOMAIN parseResult.transformationTraces :
            (/\ IsOuterTrace(parseResult.transformationTraces[j])
             /\ IsInnerTraceOf(parseResult.transformationTraces[i],
                               parseResult.transformationTraces[j].identifier))
                => i < j

\* a parse in which the calls of two segments completed interleaved: a group
\* of the second segment was traced between two groups of the first, and
\* both segments have their outer trace
C20_Witness ==
    /\ pc = "parsed"
    /\ \E a, b, c \in DOMAIN parseResult.transformationTraces :
          /\ a < b /\ b < c
          /\ IsInnerTraceOf(parseResult.transformationTraces[a], SegmentId(0))
          /\ IsInnerTraceOf(parseResult.transformationTraces[b], SegmentId(1))
          /\ IsInnerTraceOf(parseResult.transformationTraces[c], SegmentId(0))
    /\ \E j \in DOMAIN parseResult.transformationTraces :
          parseResult.transformationTraces[j].identifier = SegmentId(0)
    /\ \E j \in DOMAIN parseResult.transformationTraces :
          parseResult.transformationTraces[j].identifier = SegmentId(1)

\* ---------------------------------------------------------------------------
\* The component splitter applied to one string
\* ---------------------------------------------------------------------------

MaxComponentPieces == 5

ComponentPieces == { <<"a">>, <<"1">>, <<":">>, <<":", "/", "/">>, <<"/">>, <<"?">> }

\* a://a/a?a
ComponentsExample == <<"a", ":", "/", "/", "a", "/", "a", "?", "a">>

ComponentsInit ==
    /\ pc = "idle"
    /\ input \in StringsOver(ComponentPieces, MaxComponentPieces) \cup {ComponentsExample}
    /\ typeConverter = "undefined"
    /\ encryptor = "undefined"
    /\ result = <<>>
    /\ EngineIdle
    /\ HookIdle

ParseUrlComponents ==
    /\ pc = "idle"
    /\ result' = parseUrlComponents(input)
    /\ pc' = "done"
    /\ UNCHANGED <<input, typeConverter, encryptor, engineVars, hookVars>>

ComponentsNext == ParseUrlComponents

SpecComponents == ComponentsInit /\ [][ComponentsNext]_vars

\* the position of the first c in s, Len(s) + 1 when s holds none
FirstOf(s, c) ==
    IF \E i \in 1..Len(s) : s[i] = c
    THEN CHOOSE i \in 1..Len(s) : s[i] = c /\ \A j \in 1..(i - 1) : s[j] # c
    ELSE Len(s) + 1

\* the text of the string after its name:// prefix
AfterPrefix(s) == SubSeq(s, ProtocolRun(s) + 4, Len(s))

\* C23: with a name:// prefix, host is the text after the prefix up to the first
\* '/' or '?', path is the text from the first '/' up to the first '?' (empty
\* when no '/' comes before the first '?') and query is everything after the
\* first '?'; with no prefix, path is the text before the first '?' and query
\* is everything after it.
C23_ComponentsByFirstSeparators ==
    pc = "done" =>
        IF ProtocolMatches(input)
        THEN LET rest == AfterPrefix(input)
                 slash == FirstOf(rest, "/")
                 mark == FirstOf(rest, "?")
             IN  /\ result.host = SubSeq(rest, 1, Min(slash, mark) - 1)
                 /\ result.path = IF slash < mark THEN SubSeq(rest, slash, mark - 1)
                                  ELSE <<>>
                 /\ result.query = SubSeq(rest, mark + 1, Len(rest))
        ELSE LET mark == FirstOf(input, "?")
             IN  /\ result.path = SubSeq(input, 1, mark - 1)
                 /\ result.query = SubSeq(input, mark + 1, Len(input))

\* C23 witness: a://a/a?a is split into host a, path /a and query a.
C23_Witness ==
    /\ pc = "done"
    /\ input = ComponentsExample
    /\ result.host = <<"a">>
    /\ result.path = <<"/", "a">>
    /\ result.query = <<"a">>

\* the first position of the maximal run of e/r/v letters that ends just before
\* position open (open itself when no such letter stands before it)
RunStart(s, open) ==
    CHOOSE k \in 1..open :
        /\ \A j \in k..(open - 1) : s[j] \in {"e", "r", "v"}
        /\ k = 1 \/ s[k - 1] \notin {"e", "r", "v"}

\* s with the text from position from through position to replaced by text
Replaced(s, from, to, text) ==
    SubSeq(s, 1, from - 1) \o text \o SubSeq(s, to + 1, Len(s))

\* C25: each splice replaces exactly the text from the first letter of the
\* maximal run of e/r/v letters immediately before the group's '{' through the
\* matching '}' by the group's final value, and leaves every other character
\* of the string unchanged and in the same order.
C25_SpliceReplacesGroupOnly ==
    [][traces' # traces =>
          \E open \in 1..Len(processed) :
              /\ processed[open] = "{"
              /\ MatchingClose(processed, open + 1, 1) > 0
              /\ traces'[Len(traces')].target =
                     SubSeq(processed, open + 1, MatchingClose(processed, open + 1, 1) - 1)
              /\ processed' =
                     Replaced(processed, RunStart(processed, open),
                              MatchingClose(processed, open + 1, 1),
                              traces'[Len(traces')].result)]_vars

\* C25 witness: a group with a flag letter, after one character of other text,
\* has been spliced and the character before it is still there.
C25_Witness ==
    /\ Len(traces) = 1
    /\ FindBracket(input).found
    /\ FindBracket(input).fullStart = 1
    /\ FindBracket(input).index = 2
    /\ processed # <<>>
    /\ processed[1] = input[1]

\* the parse result when every collaborator call completes before the next
\* one is issued
Sequential == updateParseResult(input.urlString, TRUE, typeConverter, encryptor)

\* the strings of the completed tasks are the substituted values of items
TasksAgree(items) ==
    /\ Len(processed) = Len(items)
    /\ \A i \in DOMAIN processed :
          items[i].processingMode = "SUBSTITUTION" => processed[i] = items[i].convertedValue

\* C27: with deterministic collaborators, the Segments and Query Entries of
\* the Parse Result, their order and every final value, are the same for every
\* order in which the concurrently issued collaborator calls complete: when the
\* tasks of a Promise.all are done, task i holds the value item i has when the
\* calls complete one after the other.
C27_CompletionOrderIrrelevant ==
    /\ (pc = "segments" /\ TasksDone) => TasksAgree(Sequential.url)
    /\ (pc = "queries" /\ TasksDone) => TasksAgree(Sequential.query)
    /\ pc = "parsed" =>
          /\ parseResult.url = Sequential.url
          /\ parseResult.query = Sequential.query

\* C27 witness: two segments whose calls completed interleaved, a group of the
\* second between two groups of the first, and both tasks are done.
C27_Witness ==
    /\ pc = "segments"
    /\ TasksDone
    /\ Len(processed) = 2
    /\ \E a, b, c \in DOMAIN traces :
          /\ a < b /\ b < c
          /\ IsInnerTraceOf(traces[a], SegmentId(0))
          /\ IsInnerTraceOf(traces[b], SegmentId(1))
          /\ IsInnerTraceOf(traces[c], SegmentId(0))

\* C28: the obfuscator is called only on a value that belongs to a bracket
\* group, an entry or a Global wrapper carrying the e flag; input text that
\* carries no e flag never reaches the obfuscator, including in
\* encryptGlobalQueries: for an input without any '{', which can carry no flag,
\* encryptGlobalQueries finds nothing in the reconstructed URL to call the
\* obfuscator on.
C28_UnflaggedNeverObfuscated ==
    (/\ pc = "reconstructed"
     /\ encryptor # "undefined"
     /\ ~includes(input.urlString, "{"))
        => EncryptMatches(result, 0) = <<>>

\* C29: a path segment or query value that contains no bracket syntax produces
\* no Trace entry with success = false.
C29_PlainNeverFailed ==
    (Resolved /\ BraceFree(input.urlString)) =>
        \A j \in DOMAIN parseResult.transformationTraces :
            parseResult.transformationTraces[j].transformationSuccess

\* C30: for every bracket group, the final value the engine picks inline equals
\* getFinalValue applied to the same original, extracted, converted and
\* encrypted values in SUBSTITUTION mode, including when a collaborator returns
\* the empty string.
C30_InlineIsGetFinalValue ==
    [][traces' # traces =>
          traces'[Len(traces')].result =
              getFinalValue(substring(processed, FindBracket(processed).fullStart,
                                      FindBracket(processed).close + 1),
                            traces'[Len(traces')].target,
                            traces'[Len(traces')].convertedValue,
                            traces'[Len(traces')].encryptedValue,
                            traces'[Len(traces')].flags,
                            traces'[Len(traces')].type,
                            "SUBSTITUTION")]_vars

\* ---------------------------------------------------------------------------
\* The while (hasChanges) loop with a resolver that answers with a bracket
\* group.  The loop has no iteration limit of its own; the model stops
\* following it after MaxSplices splices.
\* ---------------------------------------------------------------------------

MaxSplices == 4

MaxLoopPieces == 3

LoopInit ==
    /\ input \in StringsOver(EnginePieces, MaxLoopPieces)
    /\ typeConverter \in {"mock", "group"}
    /\ encryptor \in {"undefined", "mock"}
    /\ processed = input
    /\ traces = <<>>
    /\ result = Null
    /\ HookIdle
    /\ pc = "scan"

\* an iteration that splices, followed for the first MaxSplices splices
SpliceBracket == Len(traces) < MaxSplices /\ ResolveBracket

LoopNext == SpliceBracket \/ ReturnProcessed

\* the loop is sequential code: it goes on whenever the awaited calls settle
SpecLoop == LoopInit /\ [][LoopNext]_vars /\ WF_vars(LoopNext)

RECURSIVE CountGroups(_, _, _)
\* the number of '}' of s from position i on that close an open '{'
CountGroups(s, i, depth) ==
    IF i > Len(s) THEN 0
    ELSE IF s[i] = "{" THEN CountGroups(s, i + 1, depth + 1)
    ELSE IF s[i] = "}" /\ depth > 0 THEN 1 + CountGroups(s, i + 1, depth - 1)
    ELSE CountGroups(s, i + 1, depth)

\* C24: processSubstitution terminates whatever the resolver and the obfuscator
\* return, and it performs no more splices than the input string has bracket
\* groups.
C24_TerminatesWithinGroups ==
    /\ [](Len(traces) <= CountGroups(input, 1, 0))
    /\ <>(pc = "done")

=============================================================================
